---- MODULE Spec2Model ----
(* Model of the navigation header link component (HeaderLink.astro) of the   *)
(* homepage, of a header that renders several such links on one page, and of *)
(* the blog content collection whose documents carry the front-matter seen   *)
(* in src/content/blog.                                                      *)
EXTENDS Integers, Sequences, FiniteSets

VARIABLES href, pathname, subpath, isActive, classList, rendered,
          nav, navIdx, activeLinks,
          docs, cursor, posts, phase, error, output

vars == <<href, pathname, subpath, isActive, classList, rendered,
          nav, navIdx, activeLinks,
          docs, cursor, posts, phase, error, output>>

linkVars == <<href, pathname, subpath, isActive, classList, rendered>>
navVars == <<nav, navIdx, activeLinks>>
buildVars == <<docs, cursor, posts, phase, error, output>>

-----------------------------------------------------------------------------
(* Strings are sequences of one-character strings.                           *)

MaxLen == 3
Chars == {"/", "a", "b"}

Strings(n) == UNION {[1..k -> Chars] : k \in 0..n}

Root == <<"/">>
Blog == <<"/", "b", "l", "o", "g">>
BlogSlash == <<"/", "b", "l", "o", "g", "/">>
Blogging == <<"/", "b", "l", "o", "g", "g", "i", "n", "g">>
BlogPost == <<"/", "b", "l", "o", "g", "/", "m", "y", "-", "p", "o", "s", "t">>
About == <<"/", "a", "b", "o", "u", "t">>
SlashUndefined == <<"/", "u", "n", "d", "e", "f", "i", "n", "e", "d">>
BareBlog == <<"b", "l", "o", "g">>
DoubleSlash == <<"/", "/">>

Literals == {Root, Blog, BlogSlash, Blogging, BlogPost, About, SlashUndefined,
             BareBlog, DoubleSlash}

(* href is a prop of the component: any string a caller writes.              *)
Hrefs == Strings(MaxLen) \cup Literals

(* pathname is the current page path handed to the component.                *)
Pathnames == Strings(MaxLen) \cup Literals

-----------------------------------------------------------------------------
(* JavaScript values used by the component.                                  *)

Null == [null |-> TRUE, groups |-> <<>>]
Undefined == [undef |-> TRUE, str |-> <<>>]
Str(s) == [undef |-> FALSE, str |-> s]

(* The maximal runs of characters other than "/" in p, left to right.        *)
RECURSIVE Runs(_, _, _)
Runs(p, i, cur) ==
    IF i > Len(p)
    THEN IF cur = <<>> THEN <<>> ELSE <<cur>>
    ELSE IF p[i] = "/"
         THEN (IF cur = <<>> THEN <<>> ELSE <<cur>>) \o Runs(p, i + 1, <<>>)
         ELSE Runs(p, i + 1, Append(cur, p[i]))

(* pathname.match(/[^\/]+/g): the array of all matches, or null if none.     *)
Match(p) ==
    LET all == Runs(p, 1, <<>>)
    IN IF all = <<>> THEN Null ELSE [null |-> FALSE, groups |-> all]

(* Variant that takes the last match instead of the first.                   *)
OptionalLast(m) == IF m.null THEN Undefined ELSE Str(m.groups[Len(m.groups)])

(* subpath?.[0]                                                              *)
OptionalFirst(m) == IF m.null THEN Undefined ELSE Str(m.groups[1])

(* String conversion applied by "/" + v.                                     *)
StringConcatOperand(v) ==
    IF v.undef THEN <<"u", "n", "d", "e", "f", "i", "n", "e", "d">> ELSE v.str

IsPrefix(s, t) == Len(s) <= Len(t) /\ SubSeq(t, 1, Len(s)) = s

(* Variant without the exact-match disjunct.                                 *)
IsActiveSegmentOnly(h, p) ==
    h = <<"/">> \o StringConcatOperand(OptionalFirst(Match(p)))

(* Variant that tests the target as a prefix of the current path.            *)
IsActivePrefix(h, p) ==
    \/ h = p
    \/ h = <<"/">> \o StringConcatOperand(OptionalFirst(Match(p)))
    \/ (Len(h) > 1 /\ IsPrefix(h, p))

(* href === pathname || href === "/" + subpath?.[0]                          *)
IsActive(h, p) ==
    \/ h = p
    \/ h = <<"/">> \o StringConcatOperand(OptionalFirst(Match(p)))

ActiveClass == "text-sky-800 bg-sky-100"
InactiveClass == "text-slate-800"

ClassList(active) == IF active THEN ActiveClass ELSE InactiveClass

(* One instantiation of the component with prop h on the page p: the        *)
(* frontmatter script runs once, top to bottom, and the anchor is emitted.   *)
Component(h, p) ==
    /\ href' = h
    /\ pathname' = p
    /\ subpath' = Match(p)
    /\ isActive' = IsActive(h, p)
    /\ classList' = ClassList(IsActive(h, p))
    /\ rendered' = TRUE

HeaderLink ==
    /\ ~rendered
    /\ \E h \in Hrefs, p \in Pathnames : Component(h, p)
    /\ UNCHANGED <<navVars, buildVars>>

LinkInit ==
    /\ href = <<>>
    /\ pathname = Root
    /\ subpath = Null
    /\ isActive = FALSE
    /\ classList = InactiveClass
    /\ rendered = FALSE

NavIdle ==
    /\ nav = <<>>
    /\ navIdx = 1
    /\ activeLinks = {}

BuildIdle ==
    /\ docs = <<>>
    /\ cursor = 1
    /\ posts = <<>>
    /\ phase = "idle"
    /\ error = <<>>
    /\ output = <<>>

Init == LinkInit /\ NavIdle /\ BuildIdle

Next == HeaderLink

Spec == Init /\ [][Next]_vars

-----------------------------------------------------------------------------
(* Vocabulary of the statements about the resolver.                          *)

StartsWithSlash(s) == Len(s) >= 1 /\ s[1] = "/"

HasSegment(p) == \E i \in 1..Len(p) : p[i] # "/"

(* The first non-empty token of p when p is split on "/".                    *)
FirstSegment(p) ==
    LET i == CHOOSE x \in 1..Len(p) :
                 p[x] # "/" /\ \A k \in 1..(x - 1) : p[k] = "/"
        j == CHOOSE y \in i..Len(p) :
                 /\ \A k \in i..y : p[k] # "/"
                 /\ (y = Len(p) \/ p[y + 1] = "/")
    IN SubSeq(p, i, j)

(* "/" followed by one slash-free, non-empty segment.                        *)
IsSectionTarget(t) ==
    Len(t) >= 2 /\ t[1] = "/" /\ \A k \in 2..Len(t) : t[k] # "/"

(* C1: on the page "/", a link is active if and only if its target is "/".   *)
C1_RootOnlyExact ==
    (rendered /\ pathname = Root) => (isActive <=> href = Root)

(* C2: for absolute paths, the link is active exactly when the target equals *)
(* the current path, or the current path has a first segment s and the       *)
(* target equals "/" + s.                                                    *)
C2_ActiveIff ==
    (rendered /\ StartsWithSlash(href) /\ StartsWithSlash(pathname)) =>
        (isActive <=>
            \/ href = pathname
            \/ (HasSegment(pathname)
                  /\ href = <<"/">> \o FirstSegment(pathname)))

(* C3: a link whose target equals the valid absolute current path is active, *)
(* for any number of segments, the root included.                            *)
C3_Reflexive ==
    (rendered /\ StartsWithSlash(pathname) /\ href = pathname) => isActive

C3_Witness ==
    rendered /\ href = BlogPost /\ pathname = BlogPost /\ isActive

(* C4: the link "/" + s is active on every current path whose first          *)
(* non-empty segment is s, however many segments follow.                     *)
C4_SectionActive ==
    (rendered /\ HasSegment(pathname)
        /\ href = <<"/">> \o FirstSegment(pathname)) => isActive

C4_Witness ==
    rendered /\ pathname = BlogPost /\ href = Blog /\ isActive

C10_NonSectionExactOnly ==
    rendered =>
        /\ (~IsSectionTarget(href) /\ isActive) => href = pathname
        /\ (IsSectionTarget(href) /\ pathname = href \o <<"/">>) => isActive

C10_Witness ==
    /\ rendered
    /\ href = BlogSlash
    /\ pathname \in {Blog, BlogPost}
    /\ ~isActive

-----------------------------------------------------------------------------
(* A header: the static navigation list rendered on one page, one            *)
(* HeaderLink per entry, in order.                                           *)

NavSize == 2

NavTargets == {t \in Hrefs : t = Root \/ IsSectionTarget(t)}

AbsolutePathnames == {p \in Pathnames : StartsWithSlash(p)}

Distinct(l) == \A i, j \in 1..Len(l) : i # j => l[i] # l[j]

NavLists ==
    {l \in UNION {[1..k -> NavTargets] : k \in 1..NavSize} : Distinct(l)}

NavInit ==
    /\ href = <<>>
    /\ pathname \in AbsolutePathnames
    /\ subpath = Null
    /\ isActive = FALSE
    /\ classList = InactiveClass
    /\ rendered = FALSE
    /\ nav \in NavLists
    /\ navIdx = 1
    /\ activeLinks = {}
    /\ BuildIdle

RenderNavLink ==
    /\ navIdx <= Len(nav)
    /\ Component(nav[navIdx], pathname)
    /\ activeLinks' = IF IsActive(nav[navIdx], pathname)
                      THEN activeLinks \cup {nav[navIdx]}
                      ELSE activeLinks
    /\ navIdx' = navIdx + 1
    /\ UNCHANGED <<nav, buildVars>>

NavNext == RenderNavLink

SpecNav == NavInit /\ [][NavNext]_vars

(* C9: with pairwise distinct top-level targets, at most one link of the     *)
(* header is active on any page with a valid absolute path.                  *)
C9_AtMostOneActive == Cardinality(activeLinks) <= 1

-----------------------------------------------------------------------------
(* The content collection: documents with front-matter title, description    *)
(* and pubDate are validated at load time, listed newest first and rendered. *)

NumDocs == 2

Missing == "missing"

(* pubDate is an ISO date string "YYYY-MM-DD", kept as its three fields.     *)
IsoDate(y, m, d) == [y |-> y, m |-> m, d |-> d]

PubDates == {IsoDate(2024, 9, 15), IsoDate(2024, 1, 1), IsoDate(2023, 12, 31),
             IsoDate(2024, 13, 1)}

Documents == [title : {"Solving Concurrency Issues", Missing},
              description : {"A practical approach", Missing},
              pubDate : PubDates]

NaN == -1

(* Date parsing: a day ordinal for a calendar date, NaN otherwise.           *)
ParseDate(s) ==
    IF s.m \in 1..12 /\ s.d \in 1..31
    THEN (s.y * 12 + (s.m - 1)) * 31 + (s.d - 1)
    ELSE NaN

(* Variant that accepts any pubDate, defaulting the unparseable ones.        *)
InvalidFieldsLenient(doc) ==
    {f \in {"title", "description"} : doc[f] = Missing}

(* The front-matter fields of doc that fail validation.                      *)
InvalidFields(doc) ==
    {f \in {"title", "description"} : doc[f] = Missing}
        \cup (IF ParseDate(doc.pubDate) = NaN THEN {"pubDate"} ELSE {})

ToBlogPost(slug, doc) ==
    [slug |-> slug, title |-> doc.title, description |-> doc.description,
     publishDate |-> ParseDate(doc.pubDate)]

(* Insert post x into the list l sorted by publishDate descending.           *)
RECURSIVE InsertDescending(_, _)
InsertDescending(x, l) ==
    IF l = <<>> THEN <<x>>
    ELSE IF x.publishDate > Head(l).publishDate THEN <<x>> \o l
         ELSE <<Head(l)>> \o InsertDescending(x, Tail(l))

RECURSIVE SortDescending(_)
SortDescending(l) ==
    IF l = <<>> THEN <<>>
    ELSE InsertDescending(Head(l), SortDescending(Tail(l)))

(* Variant that returns the posts in load order.                             *)
ListAllUnsorted(l) == l

(* listAll(): every loaded post, newest first.                               *)
ListAll(l) == SortDescending(l)

BuildInit ==
    /\ LinkInit
    /\ NavIdle
    /\ docs \in UNION {[1..k -> Documents] : k \in 1..NumDocs}
    /\ cursor = 1
    /\ posts = <<>>
    /\ phase = "loading"
    /\ error = <<>>
    /\ output = <<>>

(* Load and validate the next document; a validation failure aborts.         *)
LoadDocument ==
    /\ phase = "loading"
    /\ cursor <= Len(docs)
    /\ IF InvalidFields(docs[cursor]) # {}
       THEN /\ phase' = "failed"
            /\ error' = <<[kind |-> "ContentValidationError",
                           doc |-> cursor,
                           fields |-> InvalidFields(docs[cursor])]>>
            /\ UNCHANGED <<posts, cursor>>
       ELSE /\ posts' = Append(posts, ToBlogPost(cursor, docs[cursor]))
            /\ cursor' = cursor + 1
            /\ UNCHANGED <<phase, error>>
    /\ UNCHANGED <<docs, output, linkVars, navVars>>

(* All documents loaded: the listing is computed.                            *)
ListPosts ==
    /\ phase = "loading"
    /\ cursor > Len(docs)
    /\ posts' = ListAll(posts)
    /\ phase' = "listed"
    /\ UNCHANGED <<docs, cursor, error, output, linkVars, navVars>>

(* The pages are rendered from the listing.                                  *)
RenderPages ==
    /\ phase = "listed"
    /\ output' = [i \in 1..Len(posts) |-> posts[i].slug]
    /\ phase' = "done"
    /\ UNCHANGED <<docs, cursor, posts, error, linkVars, navVars>>

BuildNext == LoadDocument \/ ListPosts \/ RenderPages

SpecBuild == BuildInit /\ [][BuildNext]_vars

(* The fields of a document that the content contract rejects.               *)
RejectedFields(doc) ==
    (IF doc.title = Missing THEN {"title"} ELSE {})
        \cup (IF doc.description = Missing THEN {"description"} ELSE {})
        \cup (IF doc.pubDate.m < 1 \/ doc.pubDate.m > 12
                  \/ doc.pubDate.d < 1 \/ doc.pubDate.d > 31
               THEN {"pubDate"} ELSE {})

SomeDocumentInvalid == \E i \in 1..Len(docs) : RejectedFields(docs[i]) # {}

(* C7: the listing holds every loaded post exactly once, and each post is    *)
(* dated no earlier than the post that follows it.                           *)
C7_ListAllDescending ==
    phase \in {"listed", "done"} =>
        /\ Len(posts) = Len(docs)
        /\ \A i \in 1..Len(docs) :
               Cardinality({k \in 1..Len(posts) : posts[k].slug = i}) = 1
        /\ \A k \in 1..(Len(posts) - 1) :
               posts[k].publishDate >= posts[k + 1].publishDate

C7_Witness ==
    /\ phase = "listed"
    /\ Len(docs) = 2
    /\ docs[1].pubDate = IsoDate(2024, 1, 1)
    /\ docs[2].pubDate = IsoDate(2024, 9, 15)
    /\ posts[1].slug = 2
    /\ posts[2].slug = 1

(* C8: a build with a document that lacks title or description or has an    *)
(* unparseable pubDate never produces output, and when it stops it has       *)
(* failed with a ContentValidationError naming such a document and its       *)
(* invalid field.                                                            *)
C8_InvalidDocumentAborts ==
    SomeDocumentInvalid =>
        /\ output = <<>>
        /\ phase \in {"loading", "failed"}
        /\ (~ENABLED BuildNext) =>
               /\ phase = "failed"
               /\ Len(error) = 1
               /\ error[1].kind = "ContentValidationError"
               /\ error[1].doc \in 1..Len(docs)
               /\ error[1].fields # {}
               /\ error[1].fields \subseteq RejectedFields(docs[error[1].doc])

C8_Witness ==
    /\ phase = "failed"
    /\ Len(docs) = 2
    /\ docs[2].pubDate = IsoDate(2024, 13, 1)
    /\ error[1].doc = 2
    /\ error[1].fields = {"pubDate"}
    /\ output = <<>>
====
